---- MODULE Spec2Model ----
(***************************************************************************)
(* State-machine model of the Typography Base component                    *)
(* (components/typography/Base/index.tsx): edit-in-place, copy to          *)
(* clipboard with a timed acknowledgement, ellipsis strategy selection and *)
(* the decoration wrapper.                                                 *)
(*                                                                         *)
(* An optional value (a prop or option that may be undefined) is a set:    *)
(* {} is undefined, {v} is the value v.                                    *)
(***************************************************************************)
EXTENDS FiniteSets, Integers, Sequences, TLC

VARIABLES
    mounted,                \* the instance is mounted
    props,                  \* disabled, decorations, editable, copyable, ellipsis
    children,               \* props.children
    isLineClampSupport,     \* module-level style probe
    isTextOverflowSupport,  \* module-level style probe
    editingInner,           \* inner state of useMergedState(false, {value})
    editValue,              \* text held by the Editable text box
    copied,                 \* useState(false)
    copyIdRef,              \* useRef<Timeout>(): {} or {id}
    copyConfig,             \* the memoized, mutable copy configuration
    timers,                 \* pending timeouts of the environment
    timerSeq,               \* last timer id handed out by setTimeout
    timeoutsRun,            \* number of timeout callbacks that have run
    elapsed,                \* ms since the most recent copy trigger
    expanded,               \* useState(false)
    isJsEllipsis,           \* useState(false)
    isNativeEllipsis,       \* useState(false)
    jsNeedEllipsis,         \* truncation result held by the Ellipsis helper
    ellipsisWidth,          \* useState(0)
    wrapped,                \* decorated content of the last display render
    calls                   \* callbacks and clipboard writes, in invocation order

vars == <<mounted, props, children, isLineClampSupport, isTextOverflowSupport,
          editingInner, editValue, copied, copyIdRef, copyConfig, timers,
          timerSeq, timeoutsRun, elapsed, expanded, isJsEllipsis, isNativeEllipsis,
          jsNeedEllipsis, ellipsisWidth, wrapped, calls>>

-----------------------------------------------------------------------------
(* Bounds *)

MaxCalls == 6
MaxElapsed == 5000

TickSteps == {1000, 2000}
Widths == {100, 200}
RowValues == {0, 1, 2}
Texts == {"a", "b"}

-----------------------------------------------------------------------------
(* Values *)

Ev(cb, arg) == [cb |-> cb, arg |-> arg]

StringChild(s) == [type |-> "string", s |-> s, n |-> 0]
NumberChild(n) == [type |-> "number", s |-> "", n |-> n]
ChildrenValues == {StringChild(s) : s \in Texts} \cup {NumberChild(7)}

\* String(children)
StringOf(c) == IF c.type = "string" THEN c.s ELSE ToString(c.n)

\* the text the display branch shows for children
RenderedText(c) == IF c.type = "string" THEN c.s ELSE ToString(c.n)

\* typeof children === 'string' ? children : ''
EditableValue(c) == IF c.type = "string" THEN c.s ELSE ""

DecorationOrder == <<"strong", "u", "del", "code", "mark", "kbd", "i">>
DecorationTags == {DecorationOrder[i] : i \in 1..Len(DecorationOrder)}

-----------------------------------------------------------------------------
(* Configuration normalizer *)

EmptyEditConfig == [editing |-> {}, triggerType |-> {}]
EmptyCopyConfig == [text |-> {}]
EmptyEllipsisConfig == [rows |-> {}, expandable |-> {}, suffix |-> {}, onEllipsis |-> {}]
EllipsisTemplate == [EmptyEllipsisConfig EXCEPT !.expandable = {FALSE}]

Absent(cfg) == [kind |-> "absent", cfg |-> cfg]
Plain(cfg) == [kind |-> "true", cfg |-> cfg]
Object(cfg) == [kind |-> "object", cfg |-> cfg]

\* {...templateConfig, ...(propConfig is an object ? propConfig : null)}
MergeConfig(template, cfg) ==
    [f \in DOMAIN template |-> IF cfg[f] # {} THEN cfg[f] ELSE template[f]]

\* useMergedConfig(propConfig, templateConfig) = [enabled, config]
useMergedConfig(propConfig, template) ==
    [enabled |-> propConfig.kind # "absent",
     config  |-> IF propConfig.kind = "object"
                 THEN MergeConfig(template, propConfig.cfg)
                 ELSE template]

enableEdit == useMergedConfig(props.editable, EmptyEditConfig).enabled
editConfig == useMergedConfig(props.editable, EmptyEditConfig).config
enableCopy == useMergedConfig(props.copyable, EmptyCopyConfig).enabled
enableEllipsis == useMergedConfig(props.ellipsis, EllipsisTemplate).enabled
ellipsisConfig == useMergedConfig(props.ellipsis, EllipsisTemplate).config

-----------------------------------------------------------------------------
(* Editable *)

\* useMergedState(false, {value: editConfig.editing})[0]
editing_Uncontrolled == editingInner
editing ==
    IF editConfig.editing # {}
    THEN CHOOSE b \in editConfig.editing : TRUE
    ELSE editingInner

\* const { triggerType = ['icon'] } = editConfig
triggerType ==
    IF editConfig.triggerType # {}
    THEN CHOOSE t \in editConfig.triggerType : TRUE
    ELSE {"icon"}

\* the display branch (Typography) is what the instance renders
typographyRendered == mounted /\ ~editing

\* the editing branch (Editable) is what the instance renders
editableRendered == mounted /\ editing

\* the callbacks triggerEdit invokes
triggerEditCalls(edit) == IF edit THEN <<Ev("onStart", "")>> ELSE <<>>

\* the callbacks onEditChange invokes before Editable goes on
onEditChangeCalls_NoChange(value) == triggerEditCalls(FALSE)
onEditChangeCalls(value) == <<Ev("onChange", value)>> \o triggerEditCalls(FALSE)

\* the callbacks onEditCancel invokes before Editable goes on
onEditCancelCalls_NoCancel == triggerEditCalls(FALSE)
onEditCancelCalls == <<Ev("onCancel", "")>> \o triggerEditCalls(FALSE)

UnchangedCopy == UNCHANGED <<copied, copyIdRef, copyConfig, timers, timerSeq,
                             timeoutsRun, elapsed>>
UnchangedEllipsis == UNCHANGED <<expanded, isJsEllipsis, isNativeEllipsis,
                                 jsNeedEllipsis, ellipsisWidth>>
UnchangedEnv == UNCHANGED <<mounted, isLineClampSupport, isTextOverflowSupport>>

\* onEditClick -> triggerEdit(true)
onEditClick ==
    /\ Len(calls) + 1 <= MaxCalls
    /\ calls' = calls \o triggerEditCalls(TRUE)
    /\ editingInner' = TRUE
    /\ editValue' = IF editConfig.editing = {} THEN EditableValue(children) ELSE editValue
    /\ UNCHANGED <<props, children, wrapped>>
    /\ UnchangedCopy /\ UnchangedEllipsis /\ UnchangedEnv

\* activation of the edit icon rendered by renderEdit
EditIconClick ==
    /\ typographyRendered
    /\ enableEdit
    /\ "icon" \in triggerType
    /\ onEditClick

\* activation of the text: onClick = triggerType.includes('text') ? onEditClick : null
TextClick ==
    /\ typographyRendered
    /\ "text" \in triggerType
    /\ onEditClick

\* the text box of Editable receives input
EditableInput ==
    /\ editableRendered
    /\ \E v \in Texts \cup {""} :
          /\ v # editValue
          /\ editValue' = v
    /\ UNCHANGED <<props, children, editingInner, wrapped, calls>>
    /\ UnchangedCopy /\ UnchangedEllipsis /\ UnchangedEnv

\* Editable saves: onSave(value), which is onEditChange, and then onEnd
EditableSave ==
    /\ editableRendered
    /\ Len(calls) + 2 <= MaxCalls
    /\ calls' = calls \o onEditChangeCalls(editValue) \o <<Ev("onEnd", "")>>
    /\ editingInner' = FALSE
    /\ UNCHANGED <<props, children, editValue, wrapped>>
    /\ UnchangedCopy /\ UnchangedEllipsis /\ UnchangedEnv

\* Editable cancels: onCancel, which is onEditCancel, and then onEnd
EditableCancel ==
    /\ editableRendered
    /\ Len(calls) + 2 <= MaxCalls
    /\ calls' = calls \o onEditCancelCalls \o <<Ev("onEnd", "")>>
    /\ editingInner' = FALSE
    /\ UNCHANGED <<props, children, editValue, wrapped>>
    /\ UnchangedCopy /\ UnchangedEllipsis /\ UnchangedEnv

\* the parent re-renders with another editable.editing
SetEditingProp ==
    /\ mounted
    /\ editConfig.editing # {}
    /\ \E b \in BOOLEAN :
          /\ {b} # editConfig.editing
          /\ props' = [props EXCEPT !.editable.cfg.editing = {b}]
          /\ editValue' = IF b THEN EditableValue(children) ELSE editValue
    /\ UNCHANGED <<children, editingInner, wrapped, calls>>
    /\ UnchangedCopy /\ UnchangedEllipsis /\ UnchangedEnv

-----------------------------------------------------------------------------
(* Copyable *)

CopyDelay == 3000

\* clearTimeout(copyIdRef.current) on the pending timeouts ts
cleanCopyId_Noop(ts) == ts
cleanCopyId(ts) == {t \in ts : t.id \notin copyIdRef}

\* copyConfig.text after `if (copyConfig.text === undefined) copyConfig.text = String(children)`
resolvedCopyText == IF copyConfig.text = {} THEN StringOf(children)
                    ELSE CHOOSE t \in copyConfig.text : TRUE

\* onCopyClick, on activation of the copy button rendered by renderCopy
onCopyClick ==
    /\ typographyRendered
    /\ enableCopy
    /\ Len(calls) + 2 <= MaxCalls
    /\ copyConfig' = [copyConfig EXCEPT !.text = {resolvedCopyText}]
    /\ copied' = TRUE
    /\ timerSeq' = timerSeq + 1
    /\ timers' = cleanCopyId(timers) \cup {[id |-> timerSeq + 1, remaining |-> CopyDelay]}
    /\ copyIdRef' = {timerSeq + 1}
    /\ calls' = calls \o <<Ev("copy", resolvedCopyText), Ev("onCopy", "")>>
    /\ elapsed' = 0
    /\ UNCHANGED <<props, children, editingInner, editValue, timeoutsRun, wrapped>>
    /\ UnchangedEllipsis /\ UnchangedEnv

\* the callback given to setTimeout runs: setCopied(false)
CopyTimeout ==
    /\ \E t \in timers :
          /\ t.remaining = 0
          /\ timers' = timers \ {t}
    /\ copied' = FALSE
    /\ timeoutsRun' = timeoutsRun + 1
    /\ UNCHANGED <<props, children, editingInner, editValue, copyIdRef, copyConfig,
                   timerSeq, elapsed, wrapped, calls>>
    /\ UnchangedEllipsis /\ UnchangedEnv

\* time passes; a timeout that is due runs before time goes on
Tick ==
    /\ timerSeq > 0
    /\ \E d \in TickSteps :
          /\ elapsed + d <= MaxElapsed
          /\ \A t \in timers : t.remaining >= d
          /\ timers' = {[t EXCEPT !.remaining = @ - d] : t \in timers}
          /\ elapsed' = elapsed + d
    /\ UNCHANGED <<props, children, editingInner, editValue, copied, copyIdRef,
                   copyConfig, timerSeq, timeoutsRun, wrapped, calls>>
    /\ UnchangedEllipsis /\ UnchangedEnv

\* React.useEffect(() => cleanCopyId, []): the cleanup at unmount
Unmount_NoCleanup ==
    /\ mounted
    /\ mounted' = FALSE
    /\ UNCHANGED <<props, children, isLineClampSupport, isTextOverflowSupport,
                   editingInner, editValue, copied, copyIdRef, copyConfig, timers,
                   timerSeq, timeoutsRun, elapsed, wrapped, calls>>
    /\ UnchangedEllipsis
Unmount ==
    /\ mounted
    /\ mounted' = FALSE
    /\ timers' = cleanCopyId(timers)
    /\ UNCHANGED <<props, children, isLineClampSupport, isTextOverflowSupport,
                   editingInner, editValue, copied, copyIdRef, copyConfig,
                   timerSeq, timeoutsRun, elapsed, wrapped, calls>>
    /\ UnchangedEllipsis

\* the parent re-renders with other children; a copyable object of a new
\* identity makes useMergedConfig compute the configuration again
SetChildren ==
    /\ mounted
    /\ \E c \in ChildrenValues, newCopyable \in BOOLEAN :
          /\ c # children
          /\ children' = c
          /\ copyConfig' = IF newCopyable /\ props.copyable.kind = "object"
                           THEN useMergedConfig(props.copyable, EmptyCopyConfig).config
                           ELSE copyConfig
    /\ UNCHANGED <<props, editingInner, editValue, copied, copyIdRef, timers,
                   timerSeq, timeoutsRun, elapsed, wrapped, calls>>
    /\ UnchangedEllipsis /\ UnchangedEnv

-----------------------------------------------------------------------------
(* Ellipsis *)

\* mergedEnableEllipsis = enableEllipsis && !expanded
mergedEnableEllipsis_IgnoreExpanded == enableEllipsis
mergedEnableEllipsis == enableEllipsis /\ ~expanded

\* const { rows = 1 } = ellipsisConfig
rows == IF ellipsisConfig.rows # {} THEN CHOOSE r \in ellipsisConfig.rows : TRUE ELSE 1

\* the conditions under which the useMemo of cssEllipsis returns false at once
cssEllipsisRefused_FeaturesIgnored == ~mergedEnableEllipsis
cssEllipsisRefused ==
    \/ ~mergedEnableEllipsis
    \/ ellipsisConfig.suffix # {}
    \/ ellipsisConfig.onEllipsis # {}
    \/ ellipsisConfig.expandable = {TRUE}
    \/ enableEdit
    \/ enableCopy

cssEllipsis ==
    IF cssEllipsisRefused THEN FALSE
    ELSE IF rows = 1 THEN isTextOverflowSupport
    ELSE isLineClampSupport

isMergedEllipsis ==
    mergedEnableEllipsis /\ (IF cssEllipsis THEN isNativeEllipsis ELSE isJsEllipsis)

cssTextOverflow == mergedEnableEllipsis /\ rows = 1 /\ cssEllipsis
cssLineClamp == mergedEnableEllipsis /\ rows > 1 /\ cssEllipsis

\* <ResizeObserver disabled={...}>
resizeDisabled == ~mergedEnableEllipsis \/ cssEllipsis

\* <Ellipsis enabledMeasure={...}>
enabledMeasure == mergedEnableEllipsis /\ ~cssEllipsis

\* what the display branch has on screen
singleLineClassApplied == typographyRendered /\ cssTextOverflow
multipleLineClassApplied == typographyRendered /\ cssLineClamp
measureActive == typographyRendered /\ enabledMeasure
resizeObserved == typographyRendered /\ ~resizeDisabled

\* the needEllipsis the Ellipsis helper hands to its render function
needEllipsis == enabledMeasure /\ jsNeedEllipsis

\* renderOperations(needEllipsis): renderExpanded && renderExpand()
expandRendered == typographyRendered /\ needEllipsis /\ ellipsisConfig.expandable = {TRUE}

BoolText(b) == IF b THEN "true" ELSE "false"

\* onExpandClick, on activation of the expand control
onExpandClick ==
    /\ expandRendered
    /\ Len(calls) + 1 <= MaxCalls
    /\ expanded' = TRUE
    /\ calls' = calls \o <<Ev("onExpand", "")>>
    /\ UNCHANGED <<props, children, editingInner, editValue, isJsEllipsis,
                   isNativeEllipsis, jsNeedEllipsis, ellipsisWidth, wrapped>>
    /\ UnchangedCopy /\ UnchangedEnv

\* onResize, called by the resize observer with the observed width
onResize ==
    /\ resizeObserved
    /\ \E offsetWidth \in Widths :
          /\ offsetWidth # ellipsisWidth
          /\ ellipsisWidth' = offsetWidth
    /\ UNCHANGED <<props, children, editingInner, editValue, expanded, isJsEllipsis,
                   isNativeEllipsis, jsNeedEllipsis, wrapped, calls>>
    /\ UnchangedCopy /\ UnchangedEnv

\* the callbacks onJsEllipsis invokes
onJsEllipsisCalls(jsEllipsis) ==
    IF isJsEllipsis # jsEllipsis /\ ellipsisConfig.onEllipsis # {}
    THEN <<Ev("onEllipsis", BoolText(jsEllipsis))>>
    ELSE <<>>

\* the Ellipsis helper finishes a measurement and reports it through onJsEllipsis
EllipsisMeasure ==
    /\ measureActive
    /\ \E jsEllipsis \in BOOLEAN :
          /\ jsEllipsis # jsNeedEllipsis
          /\ Len(calls) + Len(onJsEllipsisCalls(jsEllipsis)) <= MaxCalls
          /\ jsNeedEllipsis' = jsEllipsis
          /\ isJsEllipsis' = jsEllipsis
          /\ calls' = calls \o onJsEllipsisCalls(jsEllipsis)
    /\ UNCHANGED <<props, children, editingInner, editValue, expanded,
                   isNativeEllipsis, ellipsisWidth, wrapped>>
    /\ UnchangedCopy /\ UnchangedEnv

\* the effect on [enableEllipsis, cssEllipsis, children]: offsetWidth < scrollWidth
NativeEllipsisEffect ==
    /\ typographyRendered
    /\ enableEllipsis
    /\ cssEllipsis
    /\ \E currentEllipsis \in BOOLEAN :
          /\ isNativeEllipsis # currentEllipsis
          /\ isNativeEllipsis' = currentEllipsis
    /\ UNCHANGED <<props, children, editingInner, editValue, expanded, isJsEllipsis,
                   jsNeedEllipsis, ellipsisWidth, wrapped, calls>>
    /\ UnchangedCopy /\ UnchangedEnv

-----------------------------------------------------------------------------
(* Decorations *)

\* wrap(needed, tag) on the current content; an element is the sequence of
\* its tags from the outermost to the innermost, then its content
wrap(needed, tag, currentContent) ==
    IF needed THEN <<tag>> \o currentContent ELSE currentContent

wrapperDecorations_ItalicFirst(d, content) ==
    wrap("strong" \in d, "strong",
    wrap("keyboard" \in d, "kbd",
    wrap("mark" \in d, "mark",
    wrap("code" \in d, "code",
    wrap("delete" \in d, "del",
    wrap("underline" \in d, "u",
    wrap("italic" \in d, "i", content)))))))
wrapperDecorations(d, content) ==
    wrap("italic" \in d, "i",
    wrap("keyboard" \in d, "kbd",
    wrap("mark" \in d, "mark",
    wrap("code" \in d, "code",
    wrap("delete" \in d, "del",
    wrap("underline" \in d, "u",
    wrap("strong" \in d, "strong", content)))))))

DecorationFlags == {"strong", "underline", "delete", "code", "mark", "keyboard", "italic"}

\* the display branch renders: wrapperDecorations(props, <>{node}{suffix}</>)
Render ==
    /\ typographyRendered
    /\ wrapped # wrapperDecorations(props.decorations, <<RenderedText(children)>>)
    /\ wrapped' = wrapperDecorations(props.decorations, <<RenderedText(children)>>)
    /\ UNCHANGED <<props, children, editingInner, editValue, calls>>
    /\ UnchangedCopy /\ UnchangedEllipsis /\ UnchangedEnv

-----------------------------------------------------------------------------
(* Instances *)

Opt(S) == {{}} \cup {{x} : x \in S}

DefaultProps ==
    [disabled |-> FALSE, decorations |-> {},
     editable |-> Absent(EmptyEditConfig),
     copyable |-> Absent(EmptyCopyConfig),
     ellipsis |-> Absent(EmptyEllipsisConfig)]

EditableProps ==
    {Absent(EmptyEditConfig), Plain(EmptyEditConfig)} \cup
    {Object([editing |-> e, triggerType |-> t]) :
        e \in Opt(BOOLEAN), t \in Opt(SUBSET {"icon", "text"})}

CopyableProps ==
    {Absent(EmptyCopyConfig), Plain(EmptyCopyConfig)} \cup
    {Object([text |-> t]) : t \in Opt({"", "cfg"})}

EllipsisProps ==
    {Absent(EmptyEllipsisConfig), Plain(EmptyEllipsisConfig)} \cup
    {Object([rows |-> r, expandable |-> x, suffix |-> s, onEllipsis |-> o]) :
        r \in Opt(RowValues), x \in Opt({TRUE}), s \in Opt({""}), o \in Opt({"fn"})}

\* instances that exercise edit-in-place
EditInstances ==
    {[DefaultProps EXCEPT !.disabled = d, !.editable = e] :
        d \in BOOLEAN, e \in EditableProps}

\* instances that exercise copy
CopyInstances ==
    {[DefaultProps EXCEPT !.copyable = c] : c \in CopyableProps}

\* instances that exercise ellipsis with and without the other features
EllipsisInstances ==
    {[DefaultProps EXCEPT !.ellipsis = l, !.editable = e, !.copyable = c] :
        l \in EllipsisProps,
        e \in {Absent(EmptyEditConfig), Plain(EmptyEditConfig)},
        c \in {Absent(EmptyCopyConfig), Plain(EmptyCopyConfig)}}

\* instances that exercise the decorations
DecorationInstances ==
    {[DefaultProps EXCEPT !.decorations = d] : d \in SUBSET DecorationFlags}

\* the state after construction with the given props
Constructed(p, c, lineClamp, textOverflow) ==
    /\ mounted = TRUE
    /\ props = p
    /\ children = c
    /\ isLineClampSupport = lineClamp
    /\ isTextOverflowSupport = textOverflow
    /\ editingInner = (IF p.editable.cfg.editing # {}
                       THEN CHOOSE b \in p.editable.cfg.editing : TRUE
                       ELSE FALSE)
    /\ editValue = EditableValue(c)
    /\ copied = FALSE
    /\ copyIdRef = {}
    /\ copyConfig = useMergedConfig(p.copyable, EmptyCopyConfig).config
    /\ timers = {}
    /\ timerSeq = 0
    /\ timeoutsRun = 0
    /\ elapsed = 0
    /\ expanded = FALSE
    /\ isJsEllipsis = FALSE
    /\ isNativeEllipsis = FALSE
    /\ jsNeedEllipsis = FALSE
    /\ ellipsisWidth = 0
    /\ wrapped = <<>>
    /\ calls = <<>>

InitEdit ==
    \E p \in EditInstances, c \in ChildrenValues : Constructed(p, c, TRUE, TRUE)

InitCopy ==
    \E p \in CopyInstances, c \in ChildrenValues : Constructed(p, c, TRUE, TRUE)

InitEllipsis ==
    \E p \in EllipsisInstances, lineClamp \in BOOLEAN, textOverflow \in BOOLEAN :
        Constructed(p, StringChild("a"), lineClamp, textOverflow)

InitDecoration ==
    \E p \in DecorationInstances, c \in ChildrenValues : Constructed(p, c, TRUE, TRUE)

NextEdit ==
    \/ EditIconClick
    \/ TextClick
    \/ EditableInput
    \/ EditableSave
    \/ EditableCancel
    \/ SetEditingProp
    \/ SetChildren

NextCopy ==
    \/ onCopyClick
    \/ CopyTimeout
    \/ Tick
    \/ SetChildren
    \/ Unmount

NextEllipsis ==
    \/ onExpandClick
    \/ onResize
    \/ EllipsisMeasure
    \/ NativeEllipsisEffect
    \/ EditIconClick
    \/ EditableSave
    \/ EditableCancel
    \/ Unmount

NextDecoration ==
    \/ Render
    \/ SetChildren

\* edit-in-place on instances with every editable configuration
SpecEdit == InitEdit /\ [][NextEdit]_vars

\* copy, its acknowledgement timer and unmounting
SpecCopy == InitCopy /\ [][NextCopy]_vars

\* ellipsis on instances with and without the other features
SpecEllipsis == InitEllipsis /\ [][NextEllipsis]_vars

\* the decoration wrapper on every combination of flags
SpecDecoration == InitDecoration /\ [][NextDecoration]_vars

-----------------------------------------------------------------------------
(* Properties *)

Last(seq) == seq[Len(seq)]
Reverse(seq) == [i \in 1..Len(seq) |-> seq[Len(seq) + 1 - i]]
Appended(n) == SubSeq(calls', Len(calls) + 1, Len(calls) + n)
Grew(n) == Len(calls') = Len(calls) + n /\ SubSeq(calls', 1, Len(calls)) = calls

\* the text configured by the copyable prop, as an optional value
configuredCopyText == props.copyable.cfg.text

\* a suffix, onEllipsis, expandable, editable or copyable is configured
otherFeatureConfigured ==
    \/ ellipsisConfig.suffix # {}
    \/ ellipsisConfig.onEllipsis # {}
    \/ ellipsisConfig.expandable = {TRUE}
    \/ enableEdit
    \/ enableCopy

FlagOfTag(tag) ==
    CASE tag = "strong" -> "strong"
      [] tag = "u" -> "underline"
      [] tag = "del" -> "delete"
      [] tag = "code" -> "code"
      [] tag = "mark" -> "mark"
      [] tag = "kbd" -> "keyboard"
      [] tag = "i" -> "italic"

TagRequested(tag) == FlagOfTag(tag) \in props.decorations

\* the requested tags in the order strong, u, del, code, mark, kbd, i
requestedTags == SelectSeq(DecorationOrder, TagRequested)

(* C1: every copy trigger sets copied at once and leaves exactly one pending
   reset, due CopyDelay ms later; copied stays true until CopyDelay ms have
   passed since the most recent trigger and goes false exactly then; at most
   one reset timer is pending at any time. *)
C1_CopyAcknowledgement ==
    /\ [](Cardinality(timers) <= 1)
    /\ [](mounted /\ timerSeq > 0 =>
            /\ elapsed < CopyDelay => copied
            /\ elapsed > CopyDelay => ~copied)
    /\ [][timerSeq' # timerSeq =>
            /\ copied'
            /\ timers' = {[id |-> timerSeq', remaining |-> CopyDelay]}]_vars
    /\ [][copied /\ ~copied' => elapsed = CopyDelay]_vars

\* two triggers, the second before the first reset was due, and one reset only
C1_Witness ==
    /\ mounted
    /\ timerSeq = 2
    /\ timeoutsRun = 1
    /\ ~copied
    /\ elapsed = CopyDelay

(* C2: a save invokes onChange with the text of the text box and then onEnd,
   a cancel invokes onCancel and then onEnd; onEnd never comes without the
   change or cancel callback right before it. *)
C2_ChangeOrCancelThenEnd ==
    /\ [](\A i \in 1..Len(calls) :
            /\ calls[i].cb = "onEnd" =>
                  i > 1 /\ calls[i - 1].cb \in {"onChange", "onCancel"}
            /\ calls[i].cb \in {"onChange", "onCancel"} =>
                  i < Len(calls) /\ calls[i + 1].cb = "onEnd")
    /\ [][editableRendered /\ calls' # calls =>
            /\ Grew(2)
            /\ \/ Appended(2) = <<Ev("onChange", editValue), Ev("onEnd", "")>>
               \/ Appended(2) = <<Ev("onCancel", ""), Ev("onEnd", "")>>]_vars

\* a save of an edited text and a cancel have both happened
C2_Witness ==
    \E i, j \in 1..Len(calls) :
        /\ calls[i] = Ev("onChange", "b")
        /\ calls[j].cb = "onCancel"

(* C3: with editable.editing supplied, editing equals the supplied value in
   every state and no trigger, save or cancel changes it, they only invoke
   callbacks; with it not supplied, editing is false until the first callback
   and changes only to true on an edit trigger (onStart) and to false on a
   save or cancel. *)
C3_ControlledOrOwnedEditing ==
    /\ [](editConfig.editing # {} => editing \in editConfig.editing)
    /\ [][editConfig.editing # {} /\ calls' # calls => editing' = editing]_vars
    /\ [](editConfig.editing = {} /\ calls = <<>> => ~editing)
    /\ [][editConfig.editing = {} /\ editing' # editing =>
            IF editing'
            THEN Grew(1) /\ Appended(1) = <<Ev("onStart", "")>>
            ELSE Grew(2) /\ Appended(2)[1].cb \in {"onChange", "onCancel"}]_vars

\* an edit trigger on a controlled instance: onStart invoked, editing mirrors the prop
C3_Witness ==
    /\ editConfig.editing = {FALSE}
    /\ editingInner
    /\ ~editing
    /\ Len(calls) > 0
    /\ Last(calls).cb = "onStart"

(* C4: expanded never returns to false, becomes true only by activating the
   rendered expand control, which invokes onExpand, and while it is true no
   native truncation class is applied, no measurement and no resize
   observation is active and no expand control is rendered. *)
C4_ExpandedIsOneWay ==
    /\ [][expanded => expanded']_vars
    /\ [][~expanded /\ expanded' =>
            /\ expandRendered
            /\ Grew(1)
            /\ Appended(1) = <<Ev("onExpand", "")>>]_vars
    /\ [](expanded <=> \E i \in 1..Len(calls) : calls[i].cb = "onExpand")
    /\ [](expanded =>
            /\ ~cssTextOverflow /\ ~singleLineClassApplied
            /\ ~cssLineClamp /\ ~multipleLineClassApplied
            /\ ~enabledMeasure /\ ~measureActive
            /\ resizeDisabled /\ ~resizeObserved
            /\ ~needEllipsis /\ ~expandRendered)

\* expanded, on display again after an edit, the helper still holding a truncation
C4_Witness ==
    /\ expanded
    /\ typographyRendered
    /\ jsNeedEllipsis
    /\ ellipsisWidth # 0
    /\ Len(calls) >= 3
    /\ Last(calls).cb = "onEnd"

(* C5: every copy trigger writes the configured copyable.text if there is
   one and otherwise the text rendered for the children at that trigger, and
   then invokes onCopy once. *)
C5_CopiesConfiguredOrRenderedText ==
    [][timerSeq' # timerSeq =>
        /\ Grew(2)
        /\ Appended(2) =
              <<Ev("copy", IF configuredCopyText # {}
                           THEN CHOOSE t \in configuredCopyText : TRUE
                           ELSE RenderedText(children)),
                Ev("onCopy", "")>>]_vars

(* C6 as stated: the requested wrappers nest in the order strong, u, del,
   code, mark, kbd, i from the outside in, so strong and italic together
   nest strong as the outer and italic as the inner element. *)
C6_StrongOuterItalicInner ==
    wrapped # <<>> => SubSeq(wrapped, 1, Len(wrapped) - 1) = requestedTags

(* C6 amended: the requested wrappers are applied in the order strong, u,
   del, code, mark, kbd, i, each around the result of the one before, so the
   first applied is the innermost; the result depends only on the flags and
   the content; strong and italic together nest italic as the outer and
   strong as the inner element. *)
C6_AppliedInOrderInnermostFirst ==
    /\ [][wrapped' # wrapped =>
            wrapped' = Reverse(requestedTags) \o <<RenderedText(children)>>]_vars
    /\ [](wrapped # <<>> /\ {"strong", "italic"} \subseteq props.decorations =>
            /\ Head(wrapped) = "i"
            /\ wrapped[Len(wrapped) - 1] = "strong")

\* strong, code and italic rendered around the text
C6_Witness == wrapped = <<"i", "code", "strong", "b">>

(* C7: with ellipsis in effect and none of suffix, onEllipsis, expandable,
   editable, copyable configured, exactly one strategy is selected: native
   single-line iff rows = 1 and text-overflow is supported, native multi-line
   iff rows > 1 and line-clamp is supported, script-measured otherwise. *)
C7_ExactlyOneStrategy ==
    mounted /\ mergedEnableEllipsis /\ ~otherFeatureConfigured =>
        /\ singleLineClassApplied <=> (rows = 1 /\ isTextOverflowSupport)
        /\ multipleLineClassApplied <=> (rows > 1 /\ isLineClampSupport)
        /\ measureActive <=> ~(singleLineClassApplied \/ multipleLineClassApplied)

(* C8 as stated: whenever ellipsis is in effect and one of suffix,
   onEllipsis, expandable, editable, copyable is configured, no native class
   is applied and measurement and resize observation are active. *)
C8_FeaturesForceMeasure ==
    mounted /\ mergedEnableEllipsis /\ otherFeatureConfigured =>
        /\ ~singleLineClassApplied
        /\ ~multipleLineClassApplied
        /\ measureActive
        /\ resizeObserved

(* C8 amended: whenever ellipsis is in effect and one of suffix, onEllipsis,
   expandable, editable, copyable is configured, native truncation is never
   selected, and while the instance shows its display branch (it is not
   editing) measurement and resize observation are active. *)
C8_FeaturesForceMeasureOnDisplay ==
    mounted /\ mergedEnableEllipsis /\ otherFeatureConfigured =>
        /\ ~cssEllipsis
        /\ ~singleLineClassApplied
        /\ ~multipleLineClassApplied
        /\ enabledMeasure
        /\ ~resizeDisabled
        /\ ~editing => measureActive /\ resizeObserved

\* copyable alone, one row, text-overflow supported: measured, and a resize was observed
C8_Witness ==
    /\ typographyRendered
    /\ mergedEnableEllipsis
    /\ enableCopy /\ ~enableEdit
    /\ ellipsisConfig.suffix = {} /\ ellipsisConfig.onEllipsis = {}
    /\ ellipsisConfig.expandable = {FALSE}
    /\ rows = 1 /\ isTextOverflowSupport
    /\ measureActive
    /\ ellipsisWidth # 0
    /\ jsNeedEllipsis

(* C9: once the instance is unmounted no reset timer is pending, no timeout
   callback runs and copied is not written. *)
C9_UnmountCancelsReset ==
    /\ [](~mounted => timers = {})
    /\ [][~mounted => copied' = copied /\ timeoutsRun' = timeoutsRun]_vars

\* unmounted with a reset pending, and its time has passed without it running
C9_Witness ==
    /\ ~mounted
    /\ timerSeq = 2
    /\ timeoutsRun = 0
    /\ copied
    /\ elapsed > CopyDelay

(* C10: while disabled no step invokes onStart and an instance that owns its
   editing flag does not go from display to editing. *)
C10_DisabledSuppressesEdit ==
    [][props.disabled =>
        /\ ~(Len(calls') > Len(calls) /\ Last(calls').cb = "onStart")
        /\ editConfig.editing = {} => ~(~editing /\ editing')]_vars

====
